---- MODULE Spec2Model ----
(***************************************************************************)
(* Model of mycodo/inputs/max31865.py: the bit-banged MAX31865 driver      *)
(* (class max31865), its temperature model (calcPTTemp) and the Mycodo     *)
(* input wrapper (class MAX31865Sensor).                                   *)
(*                                                                         *)
(* Granularity: one step per GPIO call of the driver (GPIO.output,         *)
(* GPIO.input) and one step per call statement; the code between two GPIO  *)
(* calls is thread-local and is folded into the step of the GPIO call it   *)
(* follows.  The program counter of a thread is its call stack, a sequence *)
(* of source line numbers (the last is the line about to run).             *)
(*                                                                         *)
(* Numbers: Python floats are modelled in fixed point.  A resistance is    *)
(* an integer count of 1/32768 ohm (so Code*R_REF/32768.0 is exact), the   *)
(* square-root argument is an integer count of 11e-10 (exact sign and      *)
(* exact comparison with (a*Res0)^2; 11 divides both (a*Res0)^2 and        *)
(* 4*b*Res0, which keeps every intermediate value inside TLC's 32-bit      *)
(* integers), the square root a count of 1e-5 rounded up, a temperature a  *)
(* count of 1/32 degree Celsius rounded down (the linear fallback          *)
(* Code/32 - 256 is exact in that unit).  print() calls are left out.      *)
(***************************************************************************)
EXTENDS Integers, Sequences, FiniteSets, TLC

VARIABLES
    pyMajor,        \* major version of the interpreter running the module
    device,         \* MAX31865Sensor.device            (line 49)
    resistor_ref,   \* MAX31865Sensor.resistor_ref      (line 50)
    temperature,    \* MAX31865Sensor._temperature      (line 43)
    cs, clk, mosi,  \* levels of the three output lines (GPIO.output)
    miso,           \* level of the input line          (GPIO.input)
    harness,        \* what is wired to the lines: "chip", "loopback" or
                    \* "probe"; "stub": no driver, a stand-in sensor object
    chip,           \* the simulated MAX31865 on the other side of the lines
    log,            \* the frames the chip has seen in the current acquisition
    threads,        \* the threads that call into the driver (with two
                    \* callers: the one that is running)
    stk,            \* per thread: call stack of source lines
    loc,            \* per thread: the locals of the active calls
    job             \* per thread: the top-level call and its outcome

vars == <<pyMajor, device, resistor_ref, temperature, cs, clk, mosi, miso,
          harness, chip, log, threads, stk, loc, job>>

AllThreads == {"T1", "T2"}

----------------------------------------------------------------------------
(* Python values *)

Val(k, v, l, e) == [k |-> k, v |-> v, l |-> l, e |-> e]
NoneV     == Val("None", 0, <<>>, "")
Num(x)    == Val("num", x, <<>>, "")
List(s)   == Val("list", 0, s, "")
Raise(e)  == Val("raise", 0, <<>>, e)
Unset     == Val("unset", 0, <<>>, "")

\* truth value of a Python object in `if x:` (None and 0 are false)
Truthy(x) == x.k = "num" /\ x.v # 0

----------------------------------------------------------------------------
(* Integer helpers *)

RECURSIVE BitAnd(_, _)
BitAnd(x, y) ==
    IF x = 0 \/ y = 0 THEN 0
    ELSE (x % 2) * (y % 2) + 2 * BitAnd(x \div 2, y \div 2)

RECURSIVE BitOr(_, _)
BitOr(x, y) ==
    IF x = 0 THEN y
    ELSE IF y = 0 THEN x
    ELSE (IF (x % 2) + (y % 2) > 0 THEN 1 ELSE 0) + 2 * BitOr(x \div 2, y \div 2)

\* floor(m * x / d) for m >= 0, d > 0, without forming m * x
MulDivFloor(m, x, d) == m * (x \div d) + (m * (x % d)) \div d

RECURSIVE CeilSqrtIn(_, _, _)
CeilSqrtIn(n, lo, hi) ==
    IF lo >= hi THEN lo
    ELSE LET mid == (lo + hi) \div 2
         IN IF mid * mid >= n THEN CeilSqrtIn(n, lo, mid)
                              ELSE CeilSqrtIn(n, mid + 1, hi)

\* least s with s * s >= n, for 0 <= n < 2^31
CeilSqrt(n) == CeilSqrtIn(n, 0, 46340)

----------------------------------------------------------------------------
(* max31865.calcPTTemp (lines 267-309) *)

Res0  == 100        \* Res0 = 100.0
a_e8  == 390830     \* a = .00390830, in units of 1e-8
b_e10 == -5775      \* b = -.000000577500, in units of 1e-10

NoRef == 0 - 1      \* R_REF left unbound: the bare `return` of line 276

\* lines 269-276: the reference resistor
ResolveRRef(dev, rref) ==
    IF Truthy(rref) THEN rref.v
    ELSE IF dev = "PT100" THEN 400
    ELSE IF dev = "PT1000" THEN 4000
    ELSE NoRef

\* line 285: Res_RTD = (RTD_ADC_Code * R_REF) / 32768.0, in units of 1/32768 ohm
Res_RTD(RTD_ADC_Code, R_REF) == RTD_ADC_Code * R_REF

\* a * Res0 in units of 1e-5 (0.390830)
ARes0 == (a_e8 * Res0) \div 1000

\* line 296, the argument of math.sqrt:
\*   a*a*Res0*Res0 - 4*(b*Res0)*(Res0 - Res_RTD), in units of 11e-10.
\* (a*Res0)^2 = 1527480889e-10 = 11 * 138861899e-10 and
\* -4*b*Res0 = 2310000e-10 = 11 * 210000e-10; 210000/32768 = 13125/2048.
Discriminant(RTD_ADC_Code, R_REF) ==
    LET x == Res0 * 32768 - Res_RTD(RTD_ADC_Code, R_REF)
        m == ((0 - 4 * b_e10 * Res0) \div 11) \div 16
    IN (ARes0 * ARes0) \div 11 + MulDivFloor(m, x, 32768 \div 16)

\* math.sqrt that answers a negative argument with a number (a NaN, as
\* cmath or numpy would) in place of the exception
MathSqrt_NaN(d11) ==
    IF d11 < 0 THEN Num(0) ELSE Num(CeilSqrt(11 * d11))

\* math.sqrt: ValueError ("math domain error") on a negative argument in
\* Python 2 and 3; otherwise the root in units of 1e-5, rounded up
MathSqrt(d11) ==
    IF d11 < 0 THEN Raise("ValueError") ELSE Num(CeilSqrt(11 * d11))

\* lines 296-297: the quadratic root in 1/32 degC, from the root in 1e-5:
\* (-(a*Res0) + sqrt) / (2*(b*Res0)), 2*b*Res0 = -1155000e-10,
\* 32 * 1e5 / 1155000 = 640 / 231
QuadraticTemp(sqrt_e5) ==
    LET den == (0 - 2 * b_e10 * Res0) \div 5000
    IN ((ARes0 - sqrt_e5) * 640) \div den

\* line 308: temp_C = (RTD_ADC_Code / 32) - 256, in 1/32 degC.  RTD_ADC_Code
\* and 32 are ints: `/` floors in Python 2 and is true division in Python 3
LinearFallback(RTD_ADC_Code, py) ==
    IF py = 2 THEN ((RTD_ADC_Code \div 32) - 256) * 32
              ELSE RTD_ADC_Code - 256 * 32

calcPTTemp(RTD_ADC_Code, dev, rref, py) ==
    LET R_REF == ResolveRRef(dev, rref)
    IN IF R_REF = NoRef THEN NoneV
       ELSE LET root == MathSqrt(Discriminant(RTD_ADC_Code, R_REF))
            IN IF root.k = "raise" THEN root
               ELSE LET temp_C == QuadraticTemp(root.v)
                    IN IF temp_C < 0
                       THEN Num(LinearFallback(RTD_ADC_Code, py))
                       ELSE Num(temp_C)

----------------------------------------------------------------------------
(* The lines and what is wired to them.                                    *)
(* The simulated chip is an SPI mode-1 slave as the MAX31865 is: it takes  *)
(* data-out (SDI) at each falling clock edge while selected, MSB first;    *)
(* the first byte of a frame is the address (bit 7 set: write), each       *)
(* further byte of a write frame is stored at the next register, and in a  *)
(* read frame it puts the next register bit on data-in (SDO) at each       *)
(* rising clock edge.  It stores what is written and echoes it on reads.   *)
(* The loopback harness is a wire from data-out to data-in.                *)
(* The probe harness is a logic analyser that records every line operation *)
(* in `log`, with a slave that follows the frame as the chip does and, in  *)
(* the data phase of a read frame, puts any level on data-in.              *)

NoAddr == 0 - 1

ChipInit == [nbits |-> 0, sr |-> 0, addr |-> NoAddr, rx |-> <<>>,
             regs |-> [r \in 0..7 |-> 0]]

Frame(rx, n) == [ev |-> "frame", rx |-> rx, nclk |-> n]
Wait         == [ev |-> "wait", rx |-> <<>>, nclk |-> 0]

\* the chip after a falling clock edge that finds data-out at level d
ChipFall(c, d) ==
    LET sr == (c.sr * 2 + d) % 256
        n  == c.nbits + 1
        whole == n % 8 = 0
        ad == IF n = 8 THEN sr ELSE c.addr
        wr == whole /\ n > 8 /\ ad >= 128
        reg == (ad - 128 + (n - 16) \div 8) % 8
    IN [nbits |-> n,
        sr    |-> sr,
        addr  |-> ad,
        rx    |-> IF whole THEN Append(c.rx, sr) ELSE c.rx,
        regs  |-> IF wr THEN [c.regs EXCEPT ![reg] = sr] ELSE c.regs]

\* the level the chip puts on data-in at a rising clock edge (m: the level
\* before the edge, kept when the chip is not in the data phase of a read)
ChipRise(c, m) ==
    IF c.nbits >= 8 /\ c.addr # NoAddr /\ c.addr < 128
    THEN LET reg == (c.addr + (c.nbits - 8) \div 8) % 8
             i   == 7 - (c.nbits % 8)
         IN (c.regs[reg] \div (2 ^ i)) % 2
    ELSE m

\* a one-shot conversion: new RTD and fault-status registers
ChipConvert(c, rtd16, st) ==
    IF BitAnd(c.regs[0], 32) # 0
    THEN [c EXCEPT !.regs = [@ EXCEPT ![1] = rtd16 \div 256,
                                       ![2] = rtd16 % 256,
                                       ![7] = st]]
    ELSE c

\* a line operation as the probe records it
LineOp(ev, pin, level) == [ev |-> ev, pin |-> pin, level |-> level]

\* the levels the probe's slave may put on data-in at a rising clock edge
ProbeRise(c, m) ==
    IF c.nbits >= 8 /\ c.addr # NoAddr /\ c.addr < 128 THEN {0, 1} ELSE {m}

\* GPIO.output(pin, level): the three lines after the call, and the
\* reaction of whatever is wired to them
GpioOutput(pin, level) ==
    LET ncs   == IF pin = "cs" THEN level ELSE cs
        nclk  == IF pin = "clk" THEN level ELSE clk
        nmosi == IF pin = "mosi" THEN level ELSE mosi
        sel   == cs = 1 /\ ncs = 0
        desel == cs = 0 /\ ncs = 1
        rise  == ncs = 0 /\ cs = 0 /\ clk = 0 /\ nclk = 1
        fall  == ncs = 0 /\ cs = 0 /\ clk = 1 /\ nclk = 0
    IN /\ cs' = ncs
       /\ clk' = nclk
       /\ mosi' = nmosi
       /\ chip' = IF harness \notin {"chip", "probe"} THEN chip
                  ELSE IF sel THEN [chip EXCEPT !.nbits = 0, !.sr = 0,
                                                !.addr = NoAddr, !.rx = <<>>]
                  ELSE IF fall THEN ChipFall(chip, nmosi)
                  ELSE chip
       /\ miso' \in IF harness = "loopback" THEN {nmosi}
                    ELSE IF ncs = 1 THEN {0}
                    ELSE IF rise /\ harness = "probe"
                    THEN ProbeRise(chip, miso)
                    ELSE IF rise THEN {ChipRise(chip, miso)}
                    ELSE {miso}
       /\ log' = IF harness = "chip" /\ desel
                 THEN Append(log, Frame(chip.rx, chip.nbits))
                 ELSE IF harness = "probe"
                 THEN Append(log, LineOp("set", pin, level))
                 ELSE log

\* GPIO.input(miso): no line changes
GpioInput ==
    /\ UNCHANGED <<cs, clk, mosi, miso, chip>>
    /\ log' = IF harness = "probe"
              THEN Append(log, LineOp("get", "miso", miso))
              ELSE log

LinesUnchanged == UNCHANGED <<cs, clk, mosi, miso, chip, log>>

----------------------------------------------------------------------------
(* Threads: call stack and locals *)

LocInit == [device |-> "", out |-> <<>>, rtd_ADC_Code |-> 0, R_REF |-> NoRef,
            temp_C |-> Unset, status |-> 0,
            regNum |-> 0, dataByte |-> 0, addressByte |-> 0,
            regNumStart |-> 0, numRegisters |-> 0, rr_out |-> <<>>,
            sb_byte |-> 0, sb_bit |-> 0, rb_byte |-> 0, rb_bit |-> 0]

JobIdle == [kind |-> "idle", st |-> "idle", res |-> Unset, exc |-> "",
            a |-> 0, d |-> 0]

Top(t)   == stk[t][Len(stk[t])]
At(t, n) == t \in threads /\ stk[t] # <<>> /\ Top(t) = n

\* the stack with its last line replaced / with a callee's first line pushed
Goto(s, n) == [i \in 1..Len(s) |-> IF i = Len(s) THEN n ELSE s[i]]
Push(s, n) == Append(s, n)
Pop(s)     == SubSeq(s, 1, Len(s) - 1)

----------------------------------------------------------------------------
(* Return from a call *)

\* MAX31865Sensor.read (lines 97-105) once get_measurement has returned rv
\* or raised: a returned value is stored in _temperature (line 98; after an
\* exception _temperature stays what it is, cur), and read() returns None
\* for a value that is not None and 1 otherwise
ReadOutcome(rv, cur) ==
    IF rv.k = "raise" THEN [temp |-> cur, ret |-> Num(1), exc |-> rv.e]
    ELSE [temp |-> rv, ret |-> IF rv.k # "None" THEN NoneV ELSE Num(1),
          exc |-> ""]

\* the top-level call of thread t ends with rv (a value or an exception)
Complete(t, l, rv) ==
    /\ stk' = [stk EXCEPT ![t] = <<>>]
    /\ loc' = [loc EXCEPT ![t] = l]
    /\ IF job[t].kind = "sensor"
       THEN /\ temperature' = ReadOutcome(rv, temperature).temp
            /\ job' = [job EXCEPT ![t].st = "done",
                                  ![t].res = ReadOutcome(rv, temperature).ret,
                                  ![t].exc = ReadOutcome(rv, temperature).exc]
       ELSE /\ temperature' = temperature
            /\ job' = [job EXCEPT
                         ![t].st = IF @ = "w_run" THEN "r"
                                   ELSE IF @ = "s_run" THEN "r"
                                   ELSE "done",
                         ![t].res = rv,
                         ![t].exc = IF rv.k = "raise" THEN rv.e ELSE ""]

\* the running function of thread t returns rv (or raises, when rv is an
\* exception: no frame of the driver catches it) with locals l; the caller
\* goes on after its call statement
Return(t, l, rv) ==
    LET s == Pop(stk[t])
        caller == IF s = <<>> THEN 0 ELSE s[Len(s)]
        go(n, ll) == /\ stk' = [stk EXCEPT ![t] = Goto(s, n)]
                     /\ loc' = [loc EXCEPT ![t] = ll]
                     /\ UNCHANGED <<job, temperature>>
    IN IF rv.k = "raise" \/ caller = 0 THEN Complete(t, l, rv)
       ELSE CASE caller = 174 -> go(177, l)
              [] caller = 180 -> go(182, [l EXCEPT !.out = rv.l])
              [] caller = 227 -> go(229, l)
              [] caller = 229 -> go(231, l)
              [] caller = 238 -> go(IF Len(l.rr_out) < l.numRegisters
                                    THEN 241 ELSE 244, l)
              [] caller = 241 ->
                    LET ll == [l EXCEPT !.rr_out = Append(@, rv.v)]
                    IN go(IF Len(ll.rr_out) < ll.numRegisters
                          THEN 241 ELSE 244, ll)

Step(t, n, l) ==
    /\ stk' = [stk EXCEPT ![t] = Goto(stk[t], n)]
    /\ loc' = [loc EXCEPT ![t] = l]
    /\ UNCHANGED <<job, temperature>>

Call(t, n, l) ==
    /\ stk' = [stk EXCEPT ![t] = Push(stk[t], n)]
    /\ loc' = [loc EXCEPT ![t] = l]
    /\ UNCHANGED <<job, temperature>>

Config == <<pyMajor, device, resistor_ref, harness, threads>>

----------------------------------------------------------------------------
(* max31865.sendByte (lines 247-255) *)

\* line 249: clock high
SB_ClkHigh(t) ==
    /\ At(t, 249)
    /\ GpioOutput("clk", 1)
    /\ Step(t, 250, loc[t])
    /\ UNCHANGED Config

\* sendByte that drives the least-significant bit
SB_Level_LowBit(byte) == byte % 2

\* the level sendByte drives for its current bit (line 250)
SB_Level(byte) == IF BitAnd(byte, 128) # 0 THEN 1 ELSE 0

\* lines 250-254: data-out to bit 7 of byte, byte <<= 1
SB_Mosi(t) ==
    /\ At(t, 250)
    /\ GpioOutput("mosi", SB_Level(loc[t].sb_byte))
    /\ Step(t, 255, [loc[t] EXCEPT !.sb_byte = @ * 2])
    /\ UNCHANGED Config

\* sendByte that returns after seven bits
SB_ClkLow_SevenBits(t) ==
    /\ At(t, 255)
    /\ GpioOutput("clk", 0)
    /\ IF loc[t].sb_bit + 1 < 7
       THEN Step(t, 249, [loc[t] EXCEPT !.sb_bit = @ + 1])
       ELSE Return(t, loc[t], NoneV)
    /\ UNCHANGED Config

\* line 255: clock low; next bit, or return after the eighth
SB_ClkLow(t) ==
    /\ At(t, 255)
    /\ GpioOutput("clk", 0)
    /\ IF loc[t].sb_bit + 1 < 8
       THEN Step(t, 249, [loc[t] EXCEPT !.sb_bit = @ + 1])
       ELSE Return(t, loc[t], NoneV)
    /\ UNCHANGED Config

\* a call of sendByte(byte)
CallSendByte(t, byte) ==
    Call(t, 249, [loc[t] EXCEPT !.sb_byte = byte, !.sb_bit = 0])

----------------------------------------------------------------------------
(* max31865.recvByte (lines 257-265) *)

\* line 260: clock high
RB_ClkHigh(t) ==
    /\ At(t, 260)
    /\ GpioOutput("clk", 1)
    /\ Step(t, 261, loc[t])
    /\ UNCHANGED Config

\* recvByte without its shift (line 261 left out)
RB_Shift_NoShift(byte, level) == BitOr(byte, IF level # 0 THEN 1 ELSE 0)

\* lines 261-263: byte <<= 1; if GPIO.input(miso): byte |= 0x1
RB_Shift(byte, level) == BitOr(byte * 2, IF level # 0 THEN 1 ELSE 0)

RB_Sample(t) ==
    /\ At(t, 261)
    /\ GpioInput
    /\ Step(t, 264, [loc[t] EXCEPT !.rb_byte = RB_Shift(@, miso)])
    /\ UNCHANGED Config

\* line 264: clock low; next bit, or line 265: return byte
RB_ClkLow(t) ==
    /\ At(t, 264)
    /\ GpioOutput("clk", 0)
    /\ IF loc[t].rb_bit + 1 < 8
       THEN Step(t, 260, [loc[t] EXCEPT !.rb_bit = @ + 1])
       ELSE Return(t, loc[t], Num(loc[t].rb_byte))
    /\ UNCHANGED Config

\* a call of recvByte() that keeps the byte of the call before
CallRecvByte_NoReset(t) ==
    Call(t, 260, [loc[t] EXCEPT !.rb_bit = 0])

\* a call of recvByte(): line 258, byte = 0x00
CallRecvByte(t) ==
    Call(t, 260, [loc[t] EXCEPT !.rb_byte = 0, !.rb_bit = 0])

----------------------------------------------------------------------------
(* max31865.writeRegister (lines 220-231) *)

\* the address byte without the write bit
AddressByte_NoWriteBit(regNum) == regNum

\* line 224: addressByte = 0x80 | regNum
AddressByte(regNum) == BitOr(128, regNum)

\* lines 221-224: select low
WR_Select(t) ==
    /\ At(t, 221)
    /\ GpioOutput("cs", 0)
    /\ Step(t, 227, [loc[t] EXCEPT !.addressByte = AddressByte(loc[t].regNum)])
    /\ UNCHANGED Config

\* line 227: self.sendByte(addressByte)
WR_SendAddr(t) ==
    /\ At(t, 227)
    /\ LinesUnchanged
    /\ CallSendByte(t, loc[t].addressByte)
    /\ UNCHANGED Config

\* line 229: self.sendByte(dataByte)
WR_SendData(t) ==
    /\ At(t, 229)
    /\ LinesUnchanged
    /\ CallSendByte(t, loc[t].dataByte)
    /\ UNCHANGED Config

\* line 231: select high, return
WR_Deselect(t) ==
    /\ At(t, 231)
    /\ GpioOutput("cs", 1)
    /\ Return(t, loc[t], NoneV)
    /\ UNCHANGED Config

CallWriteRegister(t, l, regNum, dataByte) ==
    Call(t, 221, [l EXCEPT !.regNum = regNum, !.dataByte = dataByte])

----------------------------------------------------------------------------
(* max31865.readRegisters (lines 233-245) *)

\* readRegisters that does not drive select low
RR_Select_Skipped(t) ==
    /\ At(t, 235)
    /\ LinesUnchanged
    /\ Step(t, 238, [loc[t] EXCEPT !.rr_out = <<>>])
    /\ UNCHANGED Config

\* lines 234-235: out = [], select low
RR_Select(t) ==
    /\ At(t, 235)
    /\ GpioOutput("cs", 0)
    /\ Step(t, 238, [loc[t] EXCEPT !.rr_out = <<>>])
    /\ UNCHANGED Config

\* line 238: self.sendByte(regNumStart)
RR_SendAddr(t) ==
    /\ At(t, 238)
    /\ LinesUnchanged
    /\ CallSendByte(t, loc[t].regNumStart)
    /\ UNCHANGED Config

\* lines 240-242: data = self.recvByte(); out.append(data)
RR_Recv(t) ==
    /\ At(t, 241)
    /\ LinesUnchanged
    /\ CallRecvByte(t)
    /\ UNCHANGED Config

\* readRegisters that returns with select still low
RR_Deselect_Skipped(t) ==
    /\ At(t, 244)
    /\ LinesUnchanged
    /\ Return(t, loc[t], List(loc[t].rr_out))
    /\ UNCHANGED Config

\* lines 244-245: select high, return out
RR_Deselect(t) ==
    /\ At(t, 244)
    /\ GpioOutput("cs", 1)
    /\ Return(t, loc[t], List(loc[t].rr_out))
    /\ UNCHANGED Config

CallReadRegisters(t, l, regNumStart, numRegisters) ==
    Call(t, 235, [l EXCEPT !.regNumStart = regNumStart,
                           !.numRegisters = numRegisters])

----------------------------------------------------------------------------
(* max31865.readTemp (lines 147-218) *)

ConfigByte == 178       \* 0xB2, line 174

\* the conversions the simulated chip may produce during the wait: the
\* 16-bit RTD register pair (15-bit code, then the fault bit) and the
\* fault-status register
\* the ADC codes are those within AcqWindow of the codes where calcPTTemp
\* changes branch for the default reference resistors (8192: Res_RTD = Res0
\* for PT100; 6237: first negative square-root argument for PT1000) and of
\* the two ends; the status bytes are every combination of bits 7, 6, 2,
\* and 0x01 and 0xFF
AcqWindow   == 1
AcqBranch   == {0, 6237, 8192, 32767}
AcqCodes    == UNION {(p - AcqWindow)..(p + AcqWindow) : p \in AcqBranch}
                  \cap (0..32767)
RtdRegs     == {2 * c + f : c \in AcqCodes, f \in {0, 1}}
StatusBytes == {s \in 0..255 : BitAnd(s, 59) = 0} \cup {1, 255}

\* with two callers on the driver one conversion result is enough: RTD
\* registers 0x5A 0x5A, no fault
RaceConversions == {<<23130, 0>>}
Conversions ==
    IF \E t \in AllThreads : job[t].kind = "race" THEN RaceConversions
    ELSE RtdRegs \X StatusBytes

\* readTemp without its configuration write: straight to the wait
RT_WriteConfig_Skipped(t) ==
    /\ At(t, 174)
    /\ LinesUnchanged
    /\ Step(t, 177, loc[t])
    /\ UNCHANGED Config

\* line 174: self.writeRegister(0, 0xB2)
RT_WriteConfig(t) ==
    /\ At(t, 174)
    /\ LinesUnchanged
    /\ CallWriteRegister(t, loc[t], 0, ConfigByte)
    /\ UNCHANGED Config

\* line 177: time.sleep(.1), during which the chip converts
RT_Sleep(t) ==
    /\ At(t, 177)
    /\ \E cv \in Conversions :
          chip' = IF harness = "chip" THEN ChipConvert(chip, cv[1], cv[2])
                  ELSE chip
    /\ log' = Append(log, Wait)
    /\ UNCHANGED <<cs, clk, mosi, miso>>
    /\ Step(t, 180, loc[t])
    /\ UNCHANGED Config

\* readTemp that reads 7 registers
RT_ReadAll_Seven(t) ==
    /\ At(t, 180)
    /\ LinesUnchanged
    /\ CallReadRegisters(t, loc[t], 0, 7)
    /\ UNCHANGED Config

\* line 180: out = self.readRegisters(0, 8)
RT_ReadAll(t) ==
    /\ At(t, 180)
    /\ LinesUnchanged
    /\ CallReadRegisters(t, loc[t], 0, 8)
    /\ UNCHANGED Config

\* the register pair without the shift that drops the fault bit
AdcCode_NoShift(rtd_msb, rtd_lsb) == BitOr(rtd_msb * 256, rtd_lsb)

\* lines 185-186: rtd_ADC_Code = ((rtd_msb << 8) | rtd_lsb) >> 1
AdcCode(rtd_msb, rtd_lsb) == BitOr(rtd_msb * 256, rtd_lsb) \div 2

\* lines 213-218: the three status tests, in order.  Each compares the
\* masked byte with 1
FaultCheck(status) ==
    IF BitAnd(status, 128) = 1 THEN Raise("FaultError: open")
    ELSE IF BitAnd(status, 64) = 1 THEN Raise("FaultError: short")
    ELSE IF BitAnd(status, 4) = 1 THEN Raise("FaultError: voltage")
    ELSE NoneV

\* what readTemp returns once no test of lines 213-218 has raised: the
\* function ends without a return statement
ReadTempReturn(temp_C) == NoneV

\* line 188: temp_C = self.calcPTTemp(rtd_ADC_Code, device); resistor_ref is
\* left to its default, None
ReadTempCalc(rtd_ADC_Code, dev, py) == calcPTTemp(rtd_ADC_Code, dev, NoneV, py)

\* lines 182-218, the code after the register read
RT_Decode(t) ==
    /\ At(t, 182)
    /\ LinesUnchanged
    /\ LET out == loc[t].out
       IN IF Len(out) < 8
          THEN Return(t, loc[t], Raise("IndexError"))
          ELSE LET code   == AdcCode(out[2], out[3])
                   temp_C == ReadTempCalc(code, loc[t].device, pyMajor)
                   l == [loc[t] EXCEPT !.rtd_ADC_Code = code,
                                       !.R_REF = ResolveRRef(loc[t].device, NoneV),
                                       !.temp_C = temp_C,
                                       !.status = out[8]]
               IN IF temp_C.k = "raise" THEN Return(t, l, temp_C)
                  ELSE IF FaultCheck(out[8]).k = "raise"
                  THEN Return(t, l, FaultCheck(out[8]))
                  ELSE Return(t, l, ReadTempReturn(temp_C))
    /\ UNCHANGED Config

\* the positional parameters of readTemp after self (line 147)
ReadTempParams == <<"device">>

\* Python binds a call's positional arguments to the parameters; a count
\* that does not match (no defaults, no *args here) is a TypeError
BindsReadTemp(args) == Len(args) = Len(ReadTempParams)

----------------------------------------------------------------------------
(* Callers of readTemp *)

\* line 324 (__main__): max.readTemp(device)
MainCall(t) ==
    /\ t \in threads /\ job[t].st = "idle" /\ harness = "chip"
    /\ job' = [job EXCEPT ![t] = [JobIdle EXCEPT !.kind = "readTemp",
                                                 !.st = "run"]]
    /\ stk' = [stk EXCEPT ![t] = <<174>>]
    /\ loc' = [loc EXCEPT ![t] = [LocInit EXCEPT !.device = device]]
    /\ log' = <<>>
    /\ UNCHANGED <<temperature, cs, clk, mosi, miso, chip>>
    /\ UNCHANGED Config

\* the arguments of line 87: self.sensor.readTemp(self.device, self.resistor_ref)
GetMeasurementArgs == <<device, resistor_ref>>

\* MAX31865Sensor.read (lines 90-105) up to the call of readTemp in
\* get_measurement (lines 84-88): _temperature = None, then the call, which
\* either binds and starts an acquisition or raises TypeError into the
\* except clause of read
SensorRead(t) ==
    /\ t \in threads /\ job[t].st = "idle" /\ harness = "chip"
    /\ log' = <<>>
    /\ UNCHANGED <<cs, clk, mosi, miso, chip>>
    /\ IF BindsReadTemp(GetMeasurementArgs)
       THEN /\ temperature' = NoneV
            /\ job' = [job EXCEPT ![t] = [JobIdle EXCEPT !.kind = "sensor",
                                                         !.st = "run"]]
            /\ stk' = [stk EXCEPT ![t] = <<174>>]
            /\ loc' = [loc EXCEPT ![t] =
                          [LocInit EXCEPT !.device = GetMeasurementArgs[1]]]
       ELSE /\ temperature' = ReadOutcome(Raise("TypeError"), NoneV).temp
            /\ job' = [job EXCEPT ![t] =
                          [JobIdle EXCEPT !.kind = "sensor", !.st = "done",
                               !.res = ReadOutcome(Raise("TypeError"), NoneV).ret,
                               !.exc = "TypeError"]]
            /\ stk' = [stk EXCEPT ![t] = <<>>]
            /\ loc' = [loc EXCEPT ![t] = LocInit]
    /\ UNCHANGED Config

\* the caller takes the outcome and is ready for its next call
Finish(t) ==
    /\ t \in threads /\ job[t].st = "done"
    /\ job[t].kind \in {"readTemp", "sensor"}
    /\ job' = [job EXCEPT ![t] = JobIdle]
    /\ loc' = [loc EXCEPT ![t] = LocInit]
    /\ UNCHANGED <<stk, temperature>>
    /\ LinesUnchanged
    /\ UNCHANGED Config

----------------------------------------------------------------------------
(* Specification of the acquisitions: one caller, the simulated chip *)

PyVersions   == {2, 3}
Devices      == {"PT100", "PT1000", "PT500"}
RefOverrides == {NoneV, Num(430)}

\* the state after construction: MAX31865Sensor.__init__ (lines 40-54) and
\* max31865.setupGPIO (lines 140-142)
InitCommon ==
    /\ pyMajor \in PyVersions
    /\ temperature = NoneV
    /\ cs = 1 /\ clk = 0 /\ mosi = 0 /\ miso = 0
    /\ chip = ChipInit
    /\ log = <<>>
    /\ threads = {"T1"}
    /\ stk = [t \in AllThreads |-> <<>>]
    /\ loc = [t \in AllThreads |-> LocInit]

Init ==
    /\ InitCommon
    /\ device \in Devices
    /\ resistor_ref \in RefOverrides
    /\ harness = "chip"
    /\ job = [t \in AllThreads |-> JobIdle]

Driver(t) ==
    \/ SB_ClkHigh(t) \/ SB_Mosi(t) \/ SB_ClkLow(t)
    \/ RB_ClkHigh(t) \/ RB_Sample(t) \/ RB_ClkLow(t)
    \/ WR_Select(t) \/ WR_SendAddr(t) \/ WR_SendData(t) \/ WR_Deselect(t)
    \/ RR_Select(t) \/ RR_SendAddr(t) \/ RR_Recv(t) \/ RR_Deselect(t)

Acquire(t) ==
    \/ RT_WriteConfig(t) \/ RT_Sleep(t) \/ RT_ReadAll(t) \/ RT_Decode(t)

Next ==
    \E t \in AllThreads :
        \/ MainCall(t) \/ SensorRead(t) \/ Finish(t)
        \/ Acquire(t)
        \/ Driver(t)

Spec == Init /\ [][Next]_vars

----------------------------------------------------------------------------
(* Write-then-readback against the simulated chip:                         *)
(* writeRegister(a, d), then readRegisters(a, 1)                           *)

EchoWrite(t) ==
    /\ t \in threads /\ job[t].kind = "echo" /\ job[t].st = "w"
    /\ job' = [job EXCEPT ![t].st = "w_run"]
    /\ stk' = [stk EXCEPT ![t] = <<221>>]
    /\ loc' = [loc EXCEPT ![t] = [LocInit EXCEPT !.regNum = job[t].a,
                                                 !.dataByte = job[t].d]]
    /\ UNCHANGED temperature
    /\ LinesUnchanged
    /\ UNCHANGED Config

EchoRead(t) ==
    /\ t \in threads /\ job[t].kind = "echo" /\ job[t].st = "r"
    /\ job' = [job EXCEPT ![t].st = "r_run"]
    /\ stk' = [stk EXCEPT ![t] = <<235>>]
    /\ loc' = [loc EXCEPT ![t] = [LocInit EXCEPT !.regNumStart = job[t].a,
                                                 !.numRegisters = 1]]
    /\ UNCHANGED temperature
    /\ LinesUnchanged
    /\ UNCHANGED Config

InitEcho ==
    /\ InitCommon
    /\ device = "PT100"
    /\ resistor_ref = NoneV
    /\ harness = "chip"
    /\ \E a \in 0..7, d \in 0..255 :
          job = [t \in AllThreads |->
                   IF t = "T1" THEN [JobIdle EXCEPT !.kind = "echo", !.st = "w",
                                                    !.a = a, !.d = d]
                   ELSE JobIdle]

NextEcho ==
    \E t \in AllThreads :
        \/ EchoWrite(t) \/ EchoRead(t)
        \/ SB_ClkHigh(t) \/ SB_Mosi(t) \/ SB_ClkLow(t)
        \/ RB_ClkHigh(t) \/ RB_Sample(t) \/ RB_ClkLow(t)
        \/ WR_Select(t) \/ WR_SendAddr(t) \/ WR_SendData(t) \/ WR_Deselect(t)
        \/ RR_Select(t) \/ RR_SendAddr(t) \/ RR_Recv(t) \/ RR_Deselect(t)

SpecEcho == InitEcho /\ [][NextEcho]_vars

----------------------------------------------------------------------------
(* Byte round trip on the loopback harness: sendByte(V), then recvByte()   *)

LoopSend(t) ==
    /\ t \in threads /\ job[t].kind = "loop" /\ job[t].st = "s"
    /\ job' = [job EXCEPT ![t].st = "s_run"]
    /\ stk' = [stk EXCEPT ![t] = <<249>>]
    /\ loc' = [loc EXCEPT ![t] = [LocInit EXCEPT !.sb_byte = job[t].d,
                                                 !.sb_bit = 0]]
    /\ UNCHANGED temperature
    /\ LinesUnchanged
    /\ UNCHANGED Config

LoopRecv(t) ==
    /\ t \in threads /\ job[t].kind = "loop" /\ job[t].st = "r"
    /\ job' = [job EXCEPT ![t].st = "r_run"]
    /\ stk' = [stk EXCEPT ![t] = <<260>>]
    /\ loc' = [loc EXCEPT ![t] = [loc[t] EXCEPT !.rb_byte = 0, !.rb_bit = 0]]
    /\ UNCHANGED temperature
    /\ LinesUnchanged
    /\ UNCHANGED Config

InitLoop ==
    /\ InitCommon
    /\ device = "PT100"
    /\ resistor_ref = NoneV
    /\ harness = "loopback"
    /\ \E v \in 0..255 :
          job = [t \in AllThreads |->
                   IF t = "T1" THEN [JobIdle EXCEPT !.kind = "loop", !.st = "s",
                                                    !.d = v]
                   ELSE JobIdle]

NextLoop ==
    \E t \in AllThreads :
        \/ LoopSend(t) \/ LoopRecv(t)
        \/ SB_ClkHigh(t) \/ SB_Mosi(t) \/ SB_ClkLow(t)
        \/ RB_ClkHigh(t) \/ RB_Sample(t) \/ RB_ClkLow(t)

SpecLoop == InitLoop /\ [][NextLoop]_vars

----------------------------------------------------------------------------
(* calcPTTemp called on its own: calcPTTemp(code, device, resistor_ref)    *)

CodeWindow == 24
CodeStep   == 128

\* the codes next to which calcPTTemp changes branch for the reference
\* resistors below: Res_RTD reaches Res0 (762, 820, 7621, 8192) or the
\* argument of the square root turns negative (5802, 6237), and the ends
BranchCodes == {0, 762, 820, 5802, 6237, 7621, 8192, 32767}

CalcCodes ==
    {c \in 0..32767 :
        \/ c % CodeStep = 0
        \/ \E p \in BranchCodes : c >= p - CodeWindow /\ c <= p + CodeWindow}

CalcOverrides == {NoneV, Num(0), Num(430), Num(4300)}

CalcCall(t) ==
    /\ t \in threads /\ job[t].kind = "calc" /\ job[t].st = "call"
    /\ job' = [job EXCEPT
                 ![t].st = "done",
                 ![t].res = calcPTTemp(job[t].a, device, resistor_ref, pyMajor)]
    /\ UNCHANGED <<stk, loc, temperature>>
    /\ LinesUnchanged
    /\ UNCHANGED Config

InitCalc ==
    /\ InitCommon
    /\ device \in Devices
    /\ resistor_ref \in CalcOverrides
    /\ harness = "chip"
    /\ \E c \in CalcCodes :
          job = [t \in AllThreads |->
                   IF t = "T1" THEN [JobIdle EXCEPT !.kind = "calc",
                                                    !.st = "call", !.a = c]
                   ELSE JobIdle]

NextCalc == \E t \in AllThreads : CalcCall(t)

SpecCalc == InitCalc /\ [][NextCalc]_vars

----------------------------------------------------------------------------
(* Properties *)

IsPrefix(s, e) == Len(s) <= Len(e) /\ \A i \in 1..Len(s) : s[i] = e[i]

\* thread t has finished an acquisition that read its 8 registers
AcqDone(t) ==
    /\ t \in threads
    /\ job[t].kind \in {"readTemp", "sensor"}
    /\ job[t].st = "done"
    /\ Len(loc[t].out) = 8

\* the ADC code of the RTD registers read in the acquisition of t
CodeRead(t) == AdcCode(loc[t].out[2], loc[t].out[3])

\* some of the status bits 7, 6, 2 (0x80, 0x40, 0x04) is set
HasFaultBit(status) == BitAnd(status, 196) # 0

FaultErrors == {"FaultError: open", "FaultError: short", "FaultError: voltage"}

\* the fault kind of the highest-priority set bit: 7, then 6, then 2
PriorityFault(status) ==
    IF BitAnd(status, 128) # 0 THEN "FaultError: open"
    ELSE IF BitAnd(status, 64) # 0 THEN "FaultError: short"
    ELSE IF BitAnd(status, 4) # 0 THEN "FaultError: voltage"
    ELSE ""

\* C1: an acquisition whose status byte has none of bits 7, 6, 2 set (and
\* for which calcPTTemp computes a temperature) returns that temperature,
\* computed from registers 1 and 2 of the same acquisition, never no value.
C1_ReturnsTemperature ==
    \A t \in threads :
        (/\ AcqDone(t)
         /\ ~HasFaultBit(loc[t].out[8])
         /\ ReadTempCalc(CodeRead(t), loc[t].device, pyMajor).k = "num")
        => job[t].res = ReadTempCalc(CodeRead(t), loc[t].device, pyMajor)

\* C2: an acquisition ends in FaultError if and only if one of bits 7, 6, 2
\* of the status byte it read is set.
C2_FaultIffBitSet ==
    \A t \in threads :
        AcqDone(t) =>
            ((job[t].res.k = "raise" /\ job[t].res.e \in FaultErrors)
                <=> HasFaultBit(loc[t].out[8]))

\* C3: the fault an acquisition reports is that of the highest-priority set
\* bit of the status byte (7: open cable, 6: short cable, 2: voltage).
C3_FaultPriority ==
    \A t \in threads :
        (AcqDone(t) /\ HasFaultBit(loc[t].out[8]))
        => job[t].res = Raise(PriorityFault(loc[t].out[8]))

\* C4: what the chip sees in an acquisition is, in this order and once each,
\* the write frame 0x80 0xB2 (16 clock pulses, then select released), the
\* conversion wait, and one read frame with address byte 0x00 followed by 8
\* byte times (72 clock pulses); a read frame is on the bus only after the
\* write frame and the wait of the same acquisition; readTemp gets 8 bytes.
ExpectedFrames ==
    << Frame(<<128, 178>>, 16), Wait,
       Frame(<<0, 0, 0, 0, 0, 0, 0, 0, 0>>, 72) >>

C4_AcquisitionOrder ==
    \A t \in threads :
        (job[t].kind \in {"readTemp", "sensor"} /\ job[t].exc # "TypeError")
        => /\ IsPrefix(log, ExpectedFrames)
           /\ cs = 0 => /\ Len(log) \in {0, 2}
                        /\ chip.nbits <= ExpectedFrames[Len(log) + 1].nclk
                        /\ IsPrefix(chip.rx, ExpectedFrames[Len(log) + 1].rx)
           /\ (cs = 0 /\ chip.addr # NoAddr /\ chip.addr < 128)
                 => log = SubSeq(ExpectedFrames, 1, 2)
           /\ (job[t].st = "done" \/ loc[t].out # <<>>)
                 => log = ExpectedFrames /\ Len(loc[t].out) = 8

\* an acquisition has run to its end on the frames of C4 and read the
\* configuration byte back
C4_Witness ==
    \E t \in threads :
        /\ AcqDone(t)
        /\ log = ExpectedFrames
        /\ chip.regs[0] = 178
        /\ loc[t].out[1] = 178

\* the reference resistor the claim of C5 asks for
ConfiguredRRef ==
    IF resistor_ref.k = "num" THEN resistor_ref.v
    ELSE IF device = "PT100" THEN 400
    ELSE IF device = "PT1000" THEN 4000
    ELSE NoRef

\* C5: the reference resistor used in an acquisition is the override
\* resistor_ref the sensor was constructed with, whenever one is given (it
\* is never ignored on the way from get_measurement to calcPTTemp).
C5_OverrideUsed ==
    \A t \in threads :
        (/\ job[t].kind \in {"readTemp", "sensor"}
         /\ job[t].st = "done"
         /\ resistor_ref.k = "num")
        => loc[t].R_REF = ConfiguredRRef

\* C6: calcPTTemp for a device that is neither PT100 nor PT1000, without a
\* reference resistor, ends in a configuration error.
C6_UnsupportedDeviceError ==
    \A t \in threads :
        (/\ job[t].kind = "calc" /\ job[t].st = "done"
         /\ device \notin {"PT100", "PT1000"}
         /\ resistor_ref = NoneV)
        => job[t].res = Raise("ConfigurationError")

\* C7: writeRegister(a, d) then readRegisters(a, 1) against the simulated
\* chip returns [d], for every a in 0..7 and d in 0..255.
C7_WriteThenReadback ==
    \A t \in threads :
        (job[t].kind = "echo" /\ job[t].st = "done")
        => job[t].res = List(<<job[t].d>>)

C7_Witness ==
    \E t \in threads :
        /\ job[t].kind = "echo" /\ job[t].st = "done"
        /\ job[t].a = 0 /\ job[t].d = 178
        /\ job[t].res.l = <<178>>
        /\ chip.regs[0] = 178

\* C8 as stated: sendByte(V) on the loopback harness, then recvByte(),
\* returns V.
C8_RoundTrip ==
    \A t \in threads :
        (job[t].kind = "loop" /\ job[t].st = "done")
        => job[t].res = Num(job[t].d)

\* C8 amended: sendByte(V) on the loopback harness, then recvByte(), returns
\* eight copies of the least-significant bit of V, the level sendByte leaves
\* on data-out: 0xFF for odd V, 0x00 for even V.
C8_LastBitEcho ==
    \A t \in threads :
        (job[t].kind = "loop" /\ job[t].st = "done")
        => job[t].res = Num(IF job[t].d % 2 = 1 THEN 255 ELSE 0)

C8_Witness ==
    \E t \in threads :
        /\ job[t].kind = "loop" /\ job[t].st = "done"
        /\ job[t].d = 165
        /\ job[t].res = Num(255)

\* C9: where Code*R_REF/32768 is below Res0, calcPTTemp returns
\* (Code/32) - 256 exactly (Code - 8192 in 1/32 degC); where it is at least
\* Res0 (and the square root exists) it returns the quadratic root.
C9_LinearFallbackExact ==
    \A t \in threads :
        (/\ job[t].kind = "calc" /\ job[t].st = "done"
         /\ ResolveRRef(device, resistor_ref) # NoRef)
        => LET code == job[t].a
               R    == ResolveRRef(device, resistor_ref)
               d    == Discriminant(code, R)
           IN /\ Res_RTD(code, R) < Res0 * 32768
                    => job[t].res = Num(code - 8192)
              /\ (Res_RTD(code, R) >= Res0 * 32768 /\ d >= 0)
                    => job[t].res = Num(QuadraticTemp(CeilSqrt(11 * d)))

\* C10: an acquisition whose ADC code and reference resistor make the
\* argument of the square root negative ends in an error raised to the
\* caller of readTemp (ValueError), never in a value.
C10_NegativeDiscriminantRaises ==
    \A t \in threads :
        (/\ AcqDone(t)
         /\ loc[t].R_REF # NoRef
         /\ Discriminant(CodeRead(t), loc[t].R_REF) < 0)
        => job[t].res = Raise("ValueError")

C10_Witness ==
    \E t \in threads :
        /\ AcqDone(t)
        /\ loc[t].device = "PT1000"
        /\ CodeRead(t) = 6237
        /\ job[t].res = Raise("ValueError")
        /\ job[t].exc = "ValueError"

----------------------------------------------------------------------------
(* MAX31865Sensor.read and next (lines 71-75, 90-105) *)

\* a read() of thread t has returned
ReadDone(t) ==
    t \in threads /\ job[t].kind = "sensor" /\ job[t].st = "done"

\* lines 73-75 of next(): StopIteration if read() returned a true value
NextRaisesStop(t) == Truthy(job[t].res)

\* C11: a read() reports an error (returns 1, and next() raises
\* StopIteration) only when its acquisition ran on the bus and raised;
\* otherwise the acquisition ran to its end (8 registers read) and read()
\* returns None with the measured temperature in _temperature.
C11_ReadReportsAcquisition ==
    \A t \in threads :
        ReadDone(t) =>
            /\ job[t].exc # "" => job[t].res = Num(1)
            /\ NextRaisesStop(t) => (job[t].exc # "" /\ log # <<>>)
            /\ job[t].exc = ""
                  => /\ Len(loc[t].out) = 8
                     /\ job[t].res = NoneV
                     /\ temperature =
                           ReadTempCalc(CodeRead(t), loc[t].device, pyMajor)

----------------------------------------------------------------------------
(* Two callers on one driver instance, no lock: each runs one acquisition. *)
(* The second caller runs its acquisition while the first is stopped at    *)
(* some line operation (or before it started, or after it finished);       *)
(* `threads` holds the caller that is running.                             *)

\* a caller calls readTemp(device) on the shared driver (line 147)
RaceCall(t) ==
    /\ t \in threads /\ job[t].st = "idle"
    /\ job' = [job EXCEPT ![t].kind = "race", ![t].st = "run"]
    /\ stk' = [stk EXCEPT ![t] = <<174>>]
    /\ loc' = [loc EXCEPT ![t] = [LocInit EXCEPT !.device = device]]
    /\ UNCHANGED temperature
    /\ LinesUnchanged
    /\ UNCHANGED <<pyMajor, device, resistor_ref, harness, threads>>

\* the scheduler takes the first caller off the processor and runs the
\* second; job["T2"].a records where the first caller was at that moment
\* (0: select high, outside a register transaction; 1: select low, no bit
\* clocked into the chip yet; 2: select low, some bits clocked),
\* job["T2"].d whether the first caller was inside sendByte or recvByte
Preempt ==
    /\ threads = {"T1"} /\ job["T2"].st = "idle"
    /\ threads' = {"T2"}
    /\ job' = [job EXCEPT
                 !["T2"].a = IF cs = 1 THEN 0
                             ELSE IF chip.nbits = 0 THEN 1 ELSE 2,
                 !["T2"].d = IF stk["T1"] # <<>> /\ Top("T1") >= 249 THEN 1
                             ELSE 0]
    /\ UNCHANGED <<stk, loc, temperature>>
    /\ LinesUnchanged
    /\ UNCHANGED <<pyMajor, device, resistor_ref, harness>>

\* the second caller is through; the first goes on
Resume ==
    /\ threads = {"T2"} /\ job["T2"].st = "done"
    /\ threads' = {"T1"}
    /\ UNCHANGED <<stk, loc, job, temperature>>
    /\ LinesUnchanged
    /\ UNCHANGED <<pyMajor, device, resistor_ref, harness>>

InitRace ==
    /\ InitCommon
    /\ device = "PT100"
    /\ resistor_ref = NoneV
    /\ harness = "chip"
    /\ job = [t \in AllThreads |-> JobIdle]

NextRace ==
    \/ Preempt
    \/ Resume
    \/ \E t \in AllThreads :
          \/ RaceCall(t)
          \/ Acquire(t)
          \/ Driver(t)

SpecRace == InitRace /\ [][NextRace]_vars

\* the frames of an acquisition that has the bus to itself (C4)
OwnFrames == {ExpectedFrames[1], ExpectedFrames[3]}

\* the chip has been sent a frame that is the frame of no acquisition
ForeignFrame ==
    \E i \in 1..Len(log) : log[i].ev = "frame" /\ log[i] \notin OwnFrames

\* select is high while a caller is in the middle of a byte
SelectReleasedInByte ==
    \E t \in AllThreads :
        /\ stk[t] # <<>>
        /\ Top(t) \in {249, 250, 255, 260, 261, 264}
        /\ cs = 1

\* an acquisition has ended with a configuration byte (register 0) that is
\* not the one written
WrongByteRead ==
    \E t \in AllThreads :
        /\ job[t].kind = "race" /\ job[t].st = "done"
        /\ Len(loc[t].out) = 8
        /\ loc[t].out[1] # ConfigByte

BothDone == \A t \in AllThreads : job[t].kind = "race" /\ job[t].st = "done"

\* C12: two acquisitions on one driver instance that are not serialized can
\* corrupt the bus framing: when the second acquisition runs while the
\* first is inside a register transaction with bits clocked, the chip is
\* sent a frame that is the frame of neither acquisition; when it runs
\* while the first is inside a byte, select is released in the middle of
\* that byte; a wrong byte is read, a foreign frame sent or select released
\* inside a byte only when the second acquisition ran while the first held
\* select low.
C12_InterleavingCorruptsFraming ==
    /\ ForeignFrame => job["T2"].a = 2
    /\ (SelectReleasedInByte \/ WrongByteRead) => job["T2"].a >= 1
    /\ (job["T2"].a = 2 /\ job["T2"].st = "done") => ForeignFrame
    /\ (job["T2"].d = 1 /\ job["T2"].st = "done" /\ job["T1"].st = "run"
            /\ threads = {"T2"})
          => SelectReleasedInByte

\* both acquisitions have ended; the chip saw a foreign frame and the first
\* acquisition returned a byte that was never in the register it read
C12_Witness ==
    /\ BothDone
    /\ job["T2"].a = 2
    /\ ForeignFrame
    /\ WrongByteRead

----------------------------------------------------------------------------
(* One register call on the probe harness: writeRegister(a, d) or          *)
(* readRegisters(a, n)                                                     *)

\* the calls of readRegisters: every start address with no or one register,
\* and two registers from address 1 (the RTD pair)
ReadCalls == {<<a, n>> : a \in 0..7, n \in 0..1} \cup {<<1, 2>>}

ProbeWrite(t) ==
    /\ t \in threads /\ job[t].kind = "write" /\ job[t].st = "call"
    /\ job' = [job EXCEPT ![t].st = "run"]
    /\ stk' = [stk EXCEPT ![t] = <<221>>]
    /\ loc' = [loc EXCEPT ![t] = [LocInit EXCEPT !.regNum = job[t].a,
                                                 !.dataByte = job[t].d]]
    /\ UNCHANGED temperature
    /\ LinesUnchanged
    /\ UNCHANGED Config

ProbeRead(t) ==
    /\ t \in threads /\ job[t].kind = "read" /\ job[t].st = "call"
    /\ job' = [job EXCEPT ![t].st = "run"]
    /\ stk' = [stk EXCEPT ![t] = <<235>>]
    /\ loc' = [loc EXCEPT ![t] = [LocInit EXCEPT !.regNumStart = job[t].a,
                                                 !.numRegisters = job[t].d]]
    /\ UNCHANGED temperature
    /\ LinesUnchanged
    /\ UNCHANGED Config

InitProbe ==
    /\ InitCommon
    /\ device = "PT100"
    /\ resistor_ref = NoneV
    /\ harness = "probe"
    /\ \E k \in {"write", "read"}, a \in 0..7, d \in 0..255 :
          /\ k = "read" => <<a, d>> \in ReadCalls
          /\ job = [t \in AllThreads |->
                      IF t = "T1" THEN [JobIdle EXCEPT !.kind = k, !.st = "call",
                                                       !.a = a, !.d = d]
                      ELSE JobIdle]

\* lines 183-186 of readTemp on the two bytes of readRegisters(1, 2), the
\* RTD register pair: [rtd_msb, rtd_lsb] = [out[1], out[2]] of an acquisition
ProbeDecode(t) ==
    /\ t \in threads /\ job[t].kind = "read" /\ job[t].st = "done"
    /\ job[t].a = 1 /\ job[t].d = 2
    /\ job' = [job EXCEPT ![t].st = "decoded"]
    /\ loc' = [loc EXCEPT ![t].out = job[t].res.l,
                          ![t].rtd_ADC_Code =
                               AdcCode(job[t].res.l[1], job[t].res.l[2])]
    /\ UNCHANGED <<stk, temperature>>
    /\ LinesUnchanged
    /\ UNCHANGED Config

NextProbe ==
    \E t \in AllThreads :
        \/ ProbeWrite(t) \/ ProbeRead(t) \/ ProbeDecode(t)
        \/ Driver(t)

SpecProbe == InitProbe /\ [][NextProbe]_vars

\* bit i (1: most significant, 8: least) of byte b
BitOf(b, i) == (b \div (2 ^ (8 - i))) % 2

\* the line operations of one clock pulse that carries level x on data-out
SendPulse(x) ==
    << LineOp("set", "clk", 1), LineOp("set", "mosi", x),
       LineOp("set", "clk", 0) >>

\* the line operations of one clock pulse in which data-in is sampled at x
RecvPulse(x) ==
    << LineOp("set", "clk", 1), LineOp("get", "miso", x),
       LineOp("set", "clk", 0) >>

\* the pulses of the bytes of bs, most-significant bit first
RECURSIVE Pulses(_, _, _)
Pulses(P(_), bs, i) ==
    IF bs = <<>> THEN <<>>
    ELSE IF i > 8 THEN Pulses(P, Tail(bs), 1)
    ELSE P(BitOf(Head(bs), i)) \o Pulses(P, bs, i + 1)

\* select low, the pulses of the sent bytes, then of the received, select high
Transaction(sent, received) ==
    << LineOp("set", "cs", 0) >>
    \o Pulses(SendPulse, sent, 1) \o Pulses(RecvPulse, received, 1)
    \o << LineOp("set", "cs", 1) >>

\* C13: the line operations of writeRegister(a, d) are: select low, then 16
\* clock pulses (clock high, data-out set, clock low) whose data-out levels
\* spell 0x80 | a and then d, most-significant bit first, then select high;
\* for every a in 0..7 and d in 0..255.
C13_WriteFraming ==
    \A t \in threads :
        job[t].kind = "write"
        => LET ops == Transaction(<<128 + job[t].a, job[t].d>>, <<>>)
           IN /\ IsPrefix(log, ops)
              /\ job[t].st = "done" => log = ops /\ Len(log) = 2 + 3 * 16

C13_Witness ==
    \E t \in threads :
        /\ job[t].kind = "write" /\ job[t].st = "done"
        /\ job[t].a = 5 /\ job[t].d = 178
        /\ Len(log) = 50
        /\ log[3] = LineOp("set", "mosi", 1)
        /\ log[48] = LineOp("set", "mosi", 0)
        /\ cs = 1

\* C14: readRegisters(a, n) sends the byte a as it is, then returns a list
\* of n bytes, each in 0..255; data-in is read once in each clock pulse
\* after the address byte, while the clock is high, and byte k of the list
\* is the 8 levels read in pulses 8k+1..8k+8, the first as bit 7.
C14_ReadAssembly ==
    \A t \in threads :
        job[t].kind = "read"
        => /\ loc[t].rb_byte \in 0..255
           /\ job[t].st = "done"
                 => /\ job[t].res.k = "list"
                    /\ Len(job[t].res.l) = job[t].d
                    /\ \A k \in 1..Len(job[t].res.l) : job[t].res.l[k] \in 0..255
                    /\ log = Transaction(<<job[t].a>>, job[t].res.l)
                    /\ Len(log) = 2 + 3 * 8 * (1 + job[t].d)

C14_Witness ==
    \E t \in threads :
        /\ job[t].kind = "read" /\ job[t].st = "done"
        /\ job[t].a = 1 /\ job[t].d = 2
        /\ job[t].res.l = <<90, 165>>
        /\ log[27] = LineOp("get", "miso", 0)
        /\ log[30] = LineOp("get", "miso", 1)

\* the two RTD bytes have been read from the bus and decoded
Decoded(t) == t \in threads /\ job[t].kind = "read" /\ job[t].st = "decoded"

\* C15: whatever levels data-in presents while the two RTD registers are
\* read, the ADC code ((MSB << 8) | LSB) >> 1 is in 0..32767, is the upper
\* 15 bits of the 16-bit pair MSB:LSB, and is the same for either value of
\* bit 0 of LSB.
C15_AdcCodeRange ==
    \A t \in threads :
        Decoded(t)
        => LET msb  == loc[t].out[1]
               lsb  == loc[t].out[2]
               code == loc[t].rtd_ADC_Code
           IN /\ code \in 0..32767
              /\ 2 * code + (lsb % 2) = 256 * msb + lsb
              /\ code = 128 * msb + (lsb \div 2)
              /\ \A b \in {0, 1} : AdcCode(msb, lsb - (lsb % 2) + b) = code

\* the pair 0xFF 0xFF (every level high) decodes to the largest code
C15_Witness ==
    \E t \in threads :
        /\ Decoded(t)
        /\ loc[t].out = <<255, 255>>
        /\ loc[t].rtd_ADC_Code = 32767

----------------------------------------------------------------------------
(* The lines between and inside the register transactions *)

\* the levels setupGPIO leaves (lines 140-142): select high, clock low,
\* data-out low
LinesIdle == cs = 1 /\ clk = 0 /\ mosi = 0

\* C16: after construction and after every acquisition that has ended, and
\* so at the start of every acquisition of a sequence run one at a time,
\* select is high, the clock low and data-out low.
C16_IdleLines ==
    \A t \in threads :
        (\/ job[t].st \in {"idle", "done"}
         \/ At(t, 174))
        => LinesIdle

\* an acquisition starts on idle lines after an earlier one has written the
\* configuration register
C16_Witness ==
    \E t \in threads :
        /\ job[t].kind = "readTemp" /\ At(t, 174)
        /\ chip.regs[0] = ConfigByte
        /\ chip.regs[1] = 64
        /\ LinesIdle

\* C17: the clock is high only while select is low; the clock and data-out
\* change level only while select is low; select changes level only while
\* the clock is low.
C17_ClockInsideSelect ==
    /\ [](clk = 1 => cs = 0)
    /\ [][(clk' # clk \/ mosi' # mosi) => (cs = 0 /\ cs' = 0)]_vars
    /\ [][cs' # cs => (clk = 0 /\ clk' = 0)]_vars

\* the clock is high and data-out has been driven high inside a transaction
C17_Witness ==
    /\ cs = 0 /\ clk = 1 /\ mosi = 1
    /\ \E t \in threads : At(t, 255) /\ job[t].kind = "readTemp"

----------------------------------------------------------------------------
(* Termination of an acquisition.  The caller's thread runs the driver's   *)
(* code without suspension (time.sleep returns): weak fairness of the      *)
(* steps of readTemp and of the register calls.  Nothing obliges the       *)
(* caller to call again.  One device (PT1000, for which readTemp both      *)
(* returns and raises) and one interpreter: no step before the decoding    *)
(* depends on either.                                                      *)

Fairness == \A t \in AllThreads : WF_vars(Acquire(t) \/ Driver(t))

InitLive ==
    /\ Init
    /\ device = "PT1000"
    /\ resistor_ref = NoneV
    /\ pyMajor = 3

SpecLive == InitLive /\ [][Next]_vars /\ Fairness

\* an acquisition of thread t has begun and has not ended
Running(t) == job[t].kind = "readTemp" /\ job[t].st = "run"

\* an acquisition of thread t has ended: readTemp has returned or raised
Ended(t) == job[t].kind = "readTemp" /\ job[t].st = "done"

RECURSIVE PulseCount(_)
PulseCount(l) ==
    IF l = <<>> THEN 0 ELSE Head(l).nclk + PulseCount(Tail(l))

RECURSIVE WaitCount(_)
WaitCount(l) ==
    IF l = <<>> THEN 0
    ELSE (IF Head(l).ev = "wait" THEN 1 ELSE 0) + WaitCount(Tail(l))

\* the clock pulses of the acquisition so far, those of the open frame
\* included
PulsesSoFar == PulseCount(log) + (IF cs = 0 THEN chip.nbits ELSE 0)

\* C18: an acquisition that has begun ends (readTemp returns or raises; no
\* step of it blocks or repeats for ever), and when it ends the chip has
\* seen exactly 88 clock pulses (16 in the configuration write, 72 in the
\* register read) and exactly one conversion wait; there are never more.
C18_AcquisitionTerminates ==
    /\ \A t \in AllThreads : Running(t) ~> Ended(t)
    /\ [](\A t \in AllThreads :
             /\ Running(t) => (PulsesSoFar <= 88 /\ WaitCount(log) <= 1)
             /\ Ended(t) => (PulsesSoFar = 88 /\ WaitCount(log) = 1
                              /\ log[1].nclk = 16 /\ log[3].nclk = 72))

C18_Witness ==
    \E t \in threads :
        /\ Ended(t)
        /\ PulseCount(log) = 88
        /\ WaitCount(log) = 1
        /\ job[t].res = NoneV

----------------------------------------------------------------------------
(* MAX31865Sensor.read against a stand-in for the driver                   *)
(* (MAX31865Sensor(..., testing=True) creates no driver, line 52; the      *)
(* caller sets self.sensor): a sensor object whose readTemp takes the two  *)
(* arguments of line 87 and returns a temperature, returns None or raises. *)

\* temperatures in 1/32 degC
StubTemps    == {-8192, -1, 0, 1, 640, 800, 3200, 27200}
StubOutcomes == {Num(x) : x \in StubTemps}
                   \cup {NoneV, Raise("FaultError: open"), Raise("ValueError")}

\* read() up to the call of line 87 that leaves _temperature as it is
StubCall_NoReset(t) ==
    /\ t \in threads /\ job[t].st = "idle" /\ harness = "stub"
    /\ temperature' = temperature
    /\ job' = [job EXCEPT ![t].kind = "sensor", ![t].st = "run"]
    /\ UNCHANGED <<stk, loc>>
    /\ LinesUnchanged
    /\ UNCHANGED Config

\* read() (line 98) and get_measurement up to the call of line 87:
\* self._temperature = None, then self.sensor.readTemp(...)
StubCall(t) ==
    /\ t \in threads /\ job[t].st = "idle" /\ harness = "stub"
    /\ temperature' = NoneV
    /\ job' = [job EXCEPT ![t].kind = "sensor", ![t].st = "run"]
    /\ UNCHANGED <<stk, loc>>
    /\ LinesUnchanged
    /\ UNCHANGED Config

\* readTemp returns or raises; get_measurement passes it on (lines 87-88) and
\* read() stores it and returns (lines 98-105)
StubReturn(t) ==
    /\ t \in threads /\ job[t].kind = "sensor" /\ job[t].st = "run"
    /\ harness = "stub"
    /\ \E rv \in StubOutcomes :
          Complete(t, [loc[t] EXCEPT !.temp_C = rv], rv)
    /\ LinesUnchanged
    /\ UNCHANGED Config

\* the caller takes the outcome of read(); job[t].a records that some read()
\* so far has succeeded
StubFinish(t) ==
    /\ t \in threads /\ job[t].kind = "sensor" /\ job[t].st = "done"
    /\ harness = "stub"
    /\ job' = [job EXCEPT ![t] =
                  [JobIdle EXCEPT !.a = IF job[t].res = NoneV THEN 1
                                        ELSE job[t].a]]
    /\ UNCHANGED <<stk, loc, temperature>>
    /\ LinesUnchanged
    /\ UNCHANGED Config

InitStub ==
    /\ InitCommon
    /\ device \in Devices
    /\ resistor_ref \in RefOverrides
    /\ harness = "stub"
    /\ job = [t \in AllThreads |-> JobIdle]

NextStub ==
    \E t \in AllThreads : StubCall(t) \/ StubReturn(t) \/ StubFinish(t)

SpecStub == InitStub /\ [][NextStub]_vars

\* C19: after any sequence of read() calls, if the last read() returned 1
\* then _temperature is None (never the temperature an earlier read()
\* stored), and if it returned None then _temperature is the value its own
\* acquisition produced.
C19_NoStaleResult ==
    \A t \in threads :
        ReadDone(t)
        => /\ job[t].res \in {Num(1), NoneV}
           /\ job[t].res = Num(1) => temperature = NoneV
           /\ job[t].res = NoneV
                 => temperature = loc[t].temp_C /\ temperature.k = "num"

\* a read() that failed after an earlier read() had stored a temperature
C19_Witness ==
    \E t \in threads :
        /\ ReadDone(t)
        /\ job[t].a = 1
        /\ job[t].res = Num(1)
        /\ job[t].exc = "ValueError"
        /\ temperature = NoneV

\* C20: for PT100 and PT1000 with their default reference resistors (400,
\* 4000) and every ADC code, the argument of the square root is not
\* negative and calcPTTemp returns a number.
C20_SupportedDeviceNumeric ==
    \A t \in threads :
        (/\ job[t].kind = "calc" /\ job[t].st = "done"
         /\ device \in {"PT100", "PT1000"}
         /\ resistor_ref = NoneV)
        => /\ Discriminant(job[t].a, ResolveRRef(device, resistor_ref)) >= 0
           /\ job[t].res.k = "num"

====
